---- MODULE Spec2Model ----
(***************************************************************************)
(* A model of gunshot_logger.py: the rolling capture buffer, the detection *)
(* state machine run by the audio callback, the bounded detection queue,   *)
(* and the persistence worker with the counter state file.                 *)
(*                                                                         *)
(* Samples are amplitudes on an integer grid, times are integer clock      *)
(* ticks, and a level in dB is represented by the mean square of the       *)
(* chunk, of which 20*log10(sqrt(ms) + 1e-10) is a strictly increasing     *)
(* function: every comparison of two levels is a comparison of the mean    *)
(* squares.                                                                *)
(***************************************************************************)
EXTENDS Integers, Sequences, FiniteSets, TLC

VARIABLES
    buffer,            \* self.buffer: [data, index, is_full, total_samples_written]
    written,           \* history (SpecBuffer): every sample handed to write, in order
    now,               \* the wall clock, time.time(), in ticks
    detection_state,   \* self.detection_state: "IDLE" or "TRIGGERED"
    trigger_time,      \* self.trigger_time
    audio_levels,      \* self.audio_levels: the recent levels kept for debugging
    last_debug_time,   \* self.last_debug_time
    detection_queue,   \* self.detection_queue: sequence of <<db_level, buffer_data>>
    error_counts,      \* self.error_counts: error_key -> [count, last_time]
    log_calls,         \* history: the calls of rate_limited_log and what each emitted
    running,           \* self.running
    usb_path,          \* self.usb_path: "usb", "other" or "none"
    last_usb_log,      \* self.last_usb_log
    file_counter,      \* self.file_counter
    state_file,        \* the record in CONFIG['STATE_FILE']
    files,             \* capture files on storage: set of <<path, counter>>
    partial,           \* names a failed write may have left a partial file under
    dirs,              \* storage paths on which the gunshots directory exists
    media,             \* environment: what is mounted ("usb", "other", "none")
    main_pc,           \* position of the main thread
    stream,            \* the audio input stream: "closed" or "open"
    worker_pc,         \* position of the worker thread
    item,              \* the worker's dequeued (db_level, audio_data), <<>> when none
    filepath,          \* save_gunshot's locals: <<path, counter>> of the file being written
    n_callbacks,       \* history: audio callbacks delivered
    n_refreshes,       \* history: passes of the monitoring loop
    n_triggers,        \* history: IDLE -> TRIGGERED transitions
    n_requests,        \* history: capture requests (enqueued or dropped)
    n_enqueued,        \* history: snapshots accepted by the queue
    queue_ids,         \* history: for each queued snapshot, its rank among the accepted
    consumed,          \* history: ranks of the snapshots handed to save_gunshot, in order
    main_io,           \* history: storage accesses made by the main thread
    last_observe,      \* history: what the state machine saw at its last run, and the
                       \* level of the reading that caused the latest trigger
    rejected,          \* history: the reasons validation has rejected snapshots for
    requested          \* history: for each accepted snapshot, by rank, the buffer
                       \* contents when its capture was requested

prodvars == <<buffer, detection_state, trigger_time, audio_levels, last_debug_time>>
storagevars == <<file_counter, state_file, files, partial, dirs>>
workervars == <<worker_pc, item, filepath>>
logvars == <<error_counts, log_calls>>
mainvars == <<running, usb_path, last_usb_log, media, main_pc, stream>>
histvars == <<n_callbacks, n_refreshes, n_triggers, n_requests, n_enqueued, queue_ids,
              consumed, main_io, last_observe, requested, rejected>>
vars == <<buffer, written, now, detection_state, trigger_time, audio_levels,
          last_debug_time, detection_queue, error_counts, log_calls, running,
          usb_path, last_usb_log, file_counter, state_file, files, partial, dirs, media,
          main_pc, stream, worker_pc, item, filepath, n_callbacks, n_refreshes,
          n_triggers, n_requests, n_enqueued, queue_ids, consumed, main_io,
          last_observe, requested, rejected>>

(***************************************************************************)
(* CONFIG, on the model's grids: sizes in frames, times in ticks, levels   *)
(* and floors on the amplitude grid.                                       *)
(***************************************************************************)
SAMPLE_RATE == 1          \* frames per tick
CHANNELS == 2
BUFFER_DURATION == 1      \* ticks of audio the rolling buffer holds
DETECTION_THRESHOLD == 4  \* the mean square a level must exceed
BUFFER_SIZE == 1          \* frames per delivered block
MAX_QUEUE_SIZE == 2
ERROR_COOLDOWN == 4
CAPTURE_DELAY == 2
DEBUG_INTERVAL == 3
LEVEL_HISTORY == 1        \* readings kept in audio_levels
RMS_FLOOR == 1            \* validate_audio_data: rms below this is silence
AMP_FLOOR == 2            \* validate_audio_data: peak below this is too low
TEST_DURATION == 1        \* ticks recorded by test_audio_capture
USB_LOG_INTERVAL == 60    \* find_usb_drive: ticks between "No USB drive found" warnings

(***************************************************************************)
(* Bounds of the model.                                                    *)
(***************************************************************************)
MaxAmp == 2               \* samples written in SpecBuffer are 1..MaxAmp
MaxWriteLen == 3          \* longest single write in SpecBuffer
MaxWritten == 7           \* cap on total samples written in SpecBuffer
MaxDuration == 2          \* longest buffer duration tried in SpecBuffer
MaxCallbacks == 3         \* callbacks delivered in a run of Spec
QueueCallbacks == 8       \* callbacks delivered in a run of SpecQueue
PersistCallbacks == 4     \* callbacks delivered in a run of SpecPersist
MaxGap == 2               \* longest time between two callbacks, in ticks
MaxRefreshes == 2         \* passes of the monitoring loop in a run
MaxLogCalls == 4          \* calls of rate_limited_log in a run of SpecLimiter
MaxLimiterTime == 9       \* ticks the clock advances in a run of SpecLimiter
RestartCallbacks == 4     \* callbacks delivered over all runs of SpecRestart
ShutdownCallbacks == 4
DrainCallbacks == 6    \* callbacks delivered in a run of SpecShutdown
MaxTicks == 1             \* ticks the clock may advance while no stream is open

Min(a, b) == IF a < b THEN a ELSE b

(***************************************************************************)
(* CircularBuffer                                                          *)
(***************************************************************************)
\* CircularBuffer.__init__(duration, sample_rate, channels)
CircularBuffer(duration, sample_rate, channels) ==
    [size |-> duration * sample_rate * channels,
     data |-> [i \in 1..(duration * sample_rate * channels) |-> 0],
     index |-> 0,
     is_full |-> FALSE,
     total_samples_written |-> 0]

\* One pass of the loop body of write: data[index] = d; index = (index+1) % size;
\* is_full set when the index wraps to 0.
WriteOne(b, d) ==
    LET next == (b.index + 1) % b.size
    IN  [b EXCEPT !.data[b.index + 1] = d,
                  !.index = next,
                  !.is_full = IF next = 0 THEN TRUE ELSE @]

RECURSIVE WriteLoop(_, _, _)
WriteLoop(b, d, i) ==
    IF i > Len(d) THEN b ELSE WriteLoop(WriteOne(b, d[i]), d, i + 1)

\* CircularBuffer.write(data)
write(b, d) ==
    IF Len(d) = 0
    THEN b
    ELSE [WriteLoop(b, d, 1) EXCEPT !.total_samples_written = @ + Len(d)]

\* np.roll(a, shift): the element at position i moves to position (i + shift) mod n.
roll(a, shift) ==
    [j \in 1..Len(a) |-> a[((j - 1 - shift) % Len(a)) + 1]]

\* A get_buffer that forgets to roll the wrapped data.
get_buffer_unrolled(b) ==
    IF ~b.is_full THEN SubSeq(b.data, 1, b.index) ELSE b.data

\* CircularBuffer.get_buffer()
get_buffer(b) ==
    IF ~b.is_full
    THEN SubSeq(b.data, 1, b.index)
    ELSE roll(b.data, -b.index)

(***************************************************************************)
(* Level meter and validation                                              *)
(***************************************************************************)
RECURSIVE SumSq(_)
SumSq(s) == IF Len(s) = 0 THEN 0 ELSE Head(s) * Head(s) + SumSq(Tail(s))

Abs(x) == IF x < 0 THEN 0 - x ELSE x

RECURSIVE MaxAbs(_)
MaxAbs(s) ==
    IF Len(s) = 0 THEN 0
    ELSE LET m == MaxAbs(Tail(s)) IN IF Abs(Head(s)) > m THEN Abs(Head(s)) ELSE m

NegInf == 0 - 1           \* -np.inf: below every level

\* calculate_db(audio_chunk): -inf for an empty chunk, else the level of the
\* chunk's mean square.
calculate_db(chunk) ==
    IF Len(chunk) = 0 THEN NegInf ELSE SumSq(chunk) \div Len(chunk)

\* A validation that lets an all-zero snapshot through to the floors' checks only.
validate_audio_data_nofloors(audio_data) ==
    IF Len(audio_data) = 0 THEN "empty"
    ELSE IF \A i \in 1..Len(audio_data) : audio_data[i] = 0 THEN "zeros"
    ELSE "valid"

\* validate_audio_data(audio_data): "valid", or the reason of the rejection.
\* rms < RMS_FLOOR is compared on the squares: sum of squares < floor^2 * n.
validate_audio_data(audio_data) ==
    IF Len(audio_data) = 0 THEN "empty"
    ELSE IF \A i \in 1..Len(audio_data) : audio_data[i] = 0 THEN "zeros"
    ELSE IF SumSq(audio_data) < RMS_FLOOR * RMS_FLOOR * Len(audio_data) THEN "rms"
    ELSE IF MaxAbs(audio_data) < AMP_FLOOR THEN "amplitude"
    ELSE "valid"

(***************************************************************************)
(* Rate-limited logging                                                    *)
(***************************************************************************)
\* The entry of a key, created as {count: 0, last_time: 0} when missing.
Entry(ec, error_key) ==
    IF error_key \in DOMAIN ec THEN ec[error_key] ELSE [count |-> 0, last_time |-> 0]

Put(ec, error_key, e) ==
    [k \in DOMAIN ec \cup {error_key} |-> IF k = error_key THEN e ELSE ec[k]]

\* A limiter whose window ends one tick early.
EmitsAtCooldown(ec, error_key, current_time) ==
    current_time - Entry(ec, error_key).last_time >= ERROR_COOLDOWN

\* Whether rate_limited_log emits for this key at this time.
Emits(ec, error_key, current_time) ==
    current_time - Entry(ec, error_key).last_time > ERROR_COOLDOWN

\* rate_limited_log(level, message, error_key): the new error_counts.
rate_limited_log(ec, error_key, current_time) ==
    IF Emits(ec, error_key, current_time)
    THEN Put(ec, error_key, [count |-> 0, last_time |-> current_time])
    ELSE Put(ec, error_key, [Entry(ec, error_key) EXCEPT !.count = @ + 1])

\* The suffix of an emitted message: "(occurred count times)" when count > 1,
\* 0 standing for a message emitted as given.
Appended(count) == IF count > 1 THEN count ELSE 0

\* What one call of rate_limited_log does to the log sink.
LogRecord(ec, error_key, current_time) ==
    [key |-> error_key,
     time |-> current_time,
     emitted |-> Emits(ec, error_key, current_time),
     appended |-> IF Emits(ec, error_key, current_time)
                  THEN Appended(Entry(ec, error_key).count) ELSE 0]

\* self.rate_limited_log(level, message, error_key) called at current_time.
RateLimitedLog(error_key, current_time) ==
    /\ error_counts' = rate_limited_log(error_counts, error_key, current_time)
    /\ log_calls' = Append(log_calls, LogRecord(error_counts, error_key, current_time))

(***************************************************************************)
(* Counter state                                                           *)
(***************************************************************************)
Absent == [kind |-> "absent", file_counter |-> 0]
Corrupt == [kind |-> "corrupt", file_counter |-> 0]
Saved(n) == [kind |-> "ok", file_counter |-> n]
\* Records only something else than save_state can leave: JSON that is no object,
\* an object without file_counter, an object whose file_counter is no integer.
NotObject == [kind |-> "not_object", file_counter |-> 0]
NoField == [kind |-> "no_field", file_counter |-> 0]
NonIntegerRecord == [kind |-> "non_integer", file_counter |-> 0]

\* The value load_state returns for a file_counter that is no integer (a string,
\* null, a float): that very value.
NonInteger == 0 - 2

\* load_state(): state.get('file_counter', 1) of the parsed record; 1 when the
\* file is missing or unparsable, or when state.get raises.
load_state(f) ==
    IF f.kind = "ok" THEN f.file_counter
    ELSE IF f.kind = "non_integer" THEN NonInteger
    ELSE 1

\* save_state() that fails leaves the old record (open failed) or a truncated
\* one (the dump failed after open(..., 'w')).
SaveFailures(f) == {f, Corrupt}

(***************************************************************************)
(* Detection queue                                                         *)
(***************************************************************************)
\* A snapshot that is a view of the live buffer: it shows what the buffer holds.
HeldAliased(snapshot, buf) == <<snapshot[1], get_buffer(buf)>>

\* A snapshot in the queue or in the worker's hands once the producer has written
\* the buffer again: get_buffer() and the callback took copies, so it is as it was.
Held(snapshot, buf) == snapshot

\* A put that evicts the oldest element of a full queue instead of refusing.
put_nowait_evict(q, x) ==
    IF Len(q) >= MAX_QUEUE_SIZE
    THEN [queue |-> Append(Tail(q), x), full |-> FALSE, waits |-> FALSE]
    ELSE [queue |-> Append(q, x), full |-> FALSE, waits |-> FALSE]

\* A put that waits for a free slot, as Queue.put(x) does.
put_blocking(q, x) ==
    [queue |-> Append(q, x), full |-> FALSE, waits |-> Len(q) >= MAX_QUEUE_SIZE]

\* queue.Queue(maxsize=MAX_QUEUE_SIZE).put_nowait(x): the queue afterwards,
\* whether queue.Full was raised, and whether the caller has to wait (never).
put_nowait(q, x) ==
    IF Len(q) >= MAX_QUEUE_SIZE
    THEN [queue |-> q, full |-> TRUE, waits |-> FALSE]
    ELSE [queue |-> Append(q, x), full |-> FALSE, waits |-> FALSE]

\* A queue that hands out its newest element.
QueueGetNewest(q) == <<q[Len(q)], SubSeq(q, 1, Len(q) - 1)>>

\* queue.Queue.get on a non-empty queue: <<the element, the remaining queue>>.
QueueGet(q) == <<Head(q), Tail(q)>>

(***************************************************************************)
(* Storage discovery                                                       *)
(***************************************************************************)
\* find_usb_drive(): the configured mount point when it is mounted, else any
\* other mounted /media/ partition, else None; None too when the probe raises.
find_usb_drive(m, probe_ok) == IF probe_ok THEN m ELSE "none"

(***************************************************************************)
(* Detection state machine (audio_callback)                                *)
(***************************************************************************)
None == 0 - 1             \* trigger_time before the first trigger

\* A threshold test that fires on equality too.
TriggersAtEqual(db_level) == db_level >= DETECTION_THRESHOLD

\* if db_level > CONFIG['DETECTION_THRESHOLD']
Triggers(db_level) == db_level > DETECTION_THRESHOLD

\* A delay test that is one tick early.
DelayElapsedEarly(t, tt) == t - tt >= CAPTURE_DELAY - 1

\* if time.time() - self.trigger_time >= CONFIG['CAPTURE_DELAY']
DelayElapsed(t, tt) == t - tt >= CAPTURE_DELAY

\* A trigger time that every above-threshold reading renews.
NextTriggerTimeRenewed(st, tt, db_level, t) ==
    IF Triggers(db_level) THEN t ELSE tt

\* self.trigger_time after the IDLE branch: set on a trigger, else kept.
NextTriggerTime(st, tt, db_level, t) ==
    IF st = "IDLE" /\ Triggers(db_level) THEN t ELSE tt

\* self.detection_state after a capture request, put or dropped.
AfterCapture(full) == "IDLE"

\* Readings appended and never discarded.
PushLevelUnbounded(levels, db_level) == Append(levels, db_level)

\* self.audio_levels.append(db_level), keeping the last LEVEL_HISTORY readings.
PushLevel(levels, db_level) ==
    LET l == Append(levels, db_level)
    IN  IF Len(l) > LEVEL_HISTORY THEN Tail(l) ELSE l

(***************************************************************************)
(* save_gunshot: the counter around the file write                         *)
(***************************************************************************)
\* A counter that a successful write does not advance.
AfterWriteStuck(ok, c) == c

\* A counter advanced before the write is known to have succeeded.
AfterWriteHoisted(ok, c) == c + 1

\* self.file_counter after wavfile.write returned (ok) or raised.
AfterWrite(ok, c) == IF ok THEN c + 1 ELSE c

\* A state record written before the increment.
StateRecordStale(c) == Saved(c - 1)

\* json.dump({'file_counter': self.file_counter}, f)
StateRecord(c) == IF c = NonInteger THEN NonIntegerRecord ELSE Saved(c)

(***************************************************************************)
(* Inputs                                                                  *)
(***************************************************************************)
\* Delivered blocks: BUFFER_SIZE frames of CHANNELS samples, flattened.
Silent == <<0, 0>>        \* all zero
Faint == <<1, 0>>         \* rms below the floor
Low == <<1, 1>>           \* peak below the floor
AtThreshold == <<2, 2>>   \* level equal to the threshold
Loud == <<3, 3>>          \* level above the threshold
Blocks == {Silent, Faint, Low, AtThreshold, Loud}

QueueBlocks == {AtThreshold, Loud}
PersistBlocks == {Silent, Faint, Low, Loud}

Statuses == {"none", "input_overflow", "other"}

\* What test_audio_capture records: TEST_DURATION ticks of silence.
TestRecording == [i \in 1..(TEST_DURATION * SAMPLE_RATE * CHANNELS) |-> 0]

StartCounter == 3         \* the counter a previous run is taken to have persisted
InitStateFiles == {Absent, Saved(StartCounter)}
\* Every kind of record the state file may hold when the program starts.
AllStateFiles == {Absent, Corrupt, NotObject, NoField, NonIntegerRecord,
                  Saved(StartCounter)}

Epoch == ERROR_COOLDOWN + DEBUG_INTERVAL + 1

(***************************************************************************)
(* GunshotLogger.__init__                                                  *)
(***************************************************************************)
NoObserve ==
    [detection_state |-> "NONE", trigger_time |-> None, db_level |-> NegInf,
     time |-> 0, capture |-> FALSE, full |-> FALSE, trigger_level |-> NegInf]

InitWith(f, duration) ==
    /\ buffer = CircularBuffer(duration, SAMPLE_RATE, CHANNELS)
    /\ written = <<>>
    /\ now = Epoch
    /\ media = "usb"
    /\ state_file = f
    /\ file_counter = load_state(f)
    /\ detection_queue = <<>>
    /\ running = FALSE
    /\ usb_path = "usb"
    /\ last_usb_log = 0
    /\ detection_state = "IDLE"
    /\ trigger_time = None
    /\ error_counts = <<>>
    /\ log_calls = <<>>
    /\ last_debug_time = 0
    /\ audio_levels = <<>>
    /\ files = {}
    /\ partial = {}
    /\ dirs = {}
    /\ main_pc = "constructed"
    /\ stream = "closed"
    /\ worker_pc = "not_started"
    /\ item = <<>>
    /\ filepath = <<>>
    /\ n_callbacks = 0
    /\ n_refreshes = 0
    /\ n_triggers = 0
    /\ n_requests = 0
    /\ n_enqueued = 0
    /\ queue_ids = <<>>
    /\ consumed = <<>>
    /\ main_io = {}
    /\ last_observe = NoObserve
    /\ requested = <<>>
    /\ rejected = {}

Init == \E f \in InitStateFiles : InitWith(f, BUFFER_DURATION)

(***************************************************************************)
(* The producer: audio_callback(indata, frames, time_info, status), called *)
(* by the stream dt ticks after the previous block.                        *)
(***************************************************************************)
audio_callback(indata, status, dt, cap) ==
    LET current_time == now + dt
        ec1 == IF status # "none"
               THEN rate_limited_log(error_counts, "audio_status", current_time)
               ELSE error_counts
        lc1 == IF status # "none"
               THEN Append(log_calls, LogRecord(error_counts, "audio_status", current_time))
               ELSE log_calls
        buf == write(buffer, indata)
        db_level == calculate_db(indata)
        trigger == detection_state = "IDLE" /\ Triggers(db_level)
        capture == detection_state = "TRIGGERED" /\ DelayElapsed(current_time, trigger_time)
        snapshot == <<db_level, get_buffer(buf)>>
        held == [i \in DOMAIN detection_queue |-> Held(detection_queue[i], buf)]
        put == put_nowait(held, snapshot)
        full == put.full
    IN  /\ stream = "open"
        /\ n_callbacks < cap
        /\ ~(status # "other" /\ capture /\ put.waits)
        /\ n_callbacks' = n_callbacks + 1
        /\ now' = current_time
        /\ IF status = "other"
           THEN \* a status without input_overflow: log and return
                /\ error_counts' = ec1
                /\ log_calls' = lc1
                /\ UNCHANGED <<prodvars, detection_queue, item, n_triggers, n_requests,
                               n_enqueued, queue_ids, last_observe, requested>>
           ELSE /\ buffer' = buf
                /\ audio_levels' = PushLevel(audio_levels, db_level)
                /\ last_debug_time' = IF current_time - last_debug_time >= DEBUG_INTERVAL
                                      THEN current_time ELSE last_debug_time
                /\ trigger_time' = NextTriggerTime(detection_state, trigger_time,
                                                   db_level, current_time)
                /\ detection_state' = IF trigger THEN "TRIGGERED"
                                      ELSE IF capture THEN AfterCapture(full)
                                      ELSE detection_state
                /\ detection_queue' = IF capture THEN put.queue ELSE held
                /\ item' = IF item = <<>> THEN item ELSE Held(item, buf)
                /\ requested' = IF capture /\ ~full
                                THEN Append(requested, get_buffer(buf))
                                ELSE requested
                /\ error_counts' = IF capture /\ full
                                   THEN rate_limited_log(ec1, "queue_full", current_time)
                                   ELSE ec1
                /\ log_calls' = IF capture /\ full
                                THEN Append(lc1, LogRecord(ec1, "queue_full", current_time))
                                ELSE lc1
                /\ n_triggers' = IF trigger THEN n_triggers + 1 ELSE n_triggers
                /\ n_requests' = IF capture THEN n_requests + 1 ELSE n_requests
                /\ n_enqueued' = IF capture /\ ~full THEN n_enqueued + 1 ELSE n_enqueued
                /\ queue_ids' = IF capture
                                THEN put_nowait(queue_ids, n_enqueued + 1).queue
                                ELSE queue_ids
                /\ last_observe' = [detection_state |-> detection_state,
                                    trigger_time |-> trigger_time,
                                    db_level |-> db_level,
                                    time |-> current_time,
                                    capture |-> capture,
                                    full |-> capture /\ full,
                                    trigger_level |-> IF trigger THEN db_level
                                                      ELSE last_observe.trigger_level]
        /\ UNCHANGED <<written, storagevars, worker_pc, filepath, mainvars, consumed,
                       main_io, n_refreshes, rejected>>

AudioCallback(blocks, statuses, gaps, cap) ==
    \E indata \in blocks, status \in statuses, dt \in gaps :
        audio_callback(indata, status, dt, cap)

(***************************************************************************)
(* The worker: detection_worker and save_gunshot                           *)
(***************************************************************************)
\* A worker loop that never reads the flag.
W_LoopIgnoringFlag ==
    /\ worker_pc = "loop"
    /\ worker_pc' = "get"
    /\ UNCHANGED <<item, filepath, prodvars, written, now, detection_queue,
                   logvars, storagevars, mainvars, histvars>>

\* A worker loop that goes on while snapshots are queued.
W_LoopDraining ==
    /\ worker_pc = "loop"
    /\ worker_pc' = IF running \/ detection_queue # <<>> THEN "get" ELSE "exited"
    /\ UNCHANGED <<item, filepath, prodvars, written, now, detection_queue,
                   logvars, storagevars, mainvars, histvars>>

\* while self.running
W_Loop ==
    /\ worker_pc = "loop"
    /\ worker_pc' = IF running THEN "get" ELSE "exited"
    /\ UNCHANGED <<item, filepath, prodvars, written, now, detection_queue,
                   logvars, storagevars, mainvars, histvars>>

\* self.detection_queue.get(timeout=1) returns an item: save_gunshot is entered.
W_Get ==
    /\ worker_pc = "get"
    /\ detection_queue # <<>>
    /\ item' = QueueGet(detection_queue)[1]
    /\ detection_queue' = QueueGet(detection_queue)[2]
    /\ consumed' = Append(consumed, QueueGet(queue_ids)[1])
    /\ queue_ids' = QueueGet(queue_ids)[2]
    /\ worker_pc' = "save"
    /\ UNCHANGED <<filepath, prodvars, written, now, logvars, storagevars,
                   mainvars, n_callbacks, n_refreshes, n_triggers, n_requests,
                   n_enqueued, main_io, last_observe, requested, rejected>>

\* The get times out on an empty queue: queue.Empty, continue.
W_Empty ==
    /\ worker_pc = "get"
    /\ detection_queue = <<>>
    /\ worker_pc' = "loop"
    /\ UNCHANGED <<item, filepath, prodvars, written, now, detection_queue,
                   logvars, storagevars, mainvars, histvars>>

\* save_gunshot, if not self.usb_path: log and return.
W_CheckUsb ==
    /\ worker_pc = "save"
    /\ IF usb_path = "none"
       THEN /\ RateLimitedLog("no_usb", now)
            /\ worker_pc' = "loop"
            /\ item' = <<>>
       ELSE /\ worker_pc' = "validate"
            /\ UNCHANGED <<logvars, item>>
    /\ UNCHANGED <<filepath, prodvars, written, now, detection_queue, storagevars,
                   mainvars, histvars>>

\* save_gunshot, validation to the file path: an invalid snapshot is logged and
\* dropped; usb_path is read again for the directory, which raises when the main
\* thread has set it to None meanwhile; mkdir may raise.
W_Validate(mkdir_ok) ==
    /\ worker_pc = "validate"
    /\ IF validate_audio_data(item[2]) # "valid"
       THEN /\ RateLimitedLog("invalid_audio", now)
            /\ worker_pc' = "loop"
            /\ item' = <<>>
            /\ rejected' = rejected \cup {validate_audio_data(item[2])}
            /\ UNCHANGED <<dirs, filepath>>
       ELSE IF usb_path = "none" \/ ~mkdir_ok
       THEN /\ RateLimitedLog("save_gunshot", now)
            /\ worker_pc' = "loop"
            /\ item' = <<>>
            /\ UNCHANGED <<dirs, filepath, rejected>>
       ELSE IF file_counter = NonInteger
       THEN \* the directory is made, then f"gunshot_{self.file_counter:03d}.wav" raises
            /\ dirs' = dirs \cup {usb_path}
            /\ RateLimitedLog("save_gunshot", now)
            /\ worker_pc' = "loop"
            /\ item' = <<>>
            /\ UNCHANGED <<filepath, rejected>>
       ELSE /\ dirs' = dirs \cup {usb_path}
            /\ filepath' = <<usb_path, file_counter>>
            /\ worker_pc' = "write"
            /\ UNCHANGED <<logvars, item, rejected>>
    /\ UNCHANGED <<file_counter, state_file, files, partial, prodvars, written, now,
                   detection_queue, mainvars, n_callbacks, n_refreshes, n_triggers,
                   n_requests, n_enqueued, queue_ids, consumed, main_io, last_observe, requested>>

\* A write whose failure is not caught and ends the worker thread.
W_WriteFatal(ok) ==
    /\ worker_pc = "write"
    /\ IF ok
       THEN /\ files' = files \cup {filepath}
            /\ partial' = partial \ {filepath}
            /\ worker_pc' = "commit"
            /\ UNCHANGED <<item, filepath>>
       ELSE /\ partial' = (partial \cup {filepath}) \ files
            /\ worker_pc' = "exited"
            /\ item' = <<>>
            /\ filepath' = <<>>
            /\ UNCHANGED files
    /\ UNCHANGED <<file_counter, logvars, state_file, dirs, prodvars, written, now,
                   detection_queue, mainvars, histvars>>

\* save_gunshot, wavfile.write: the file is written, or the write raises and the
\* failure is logged.
W_Write(ok) ==
    /\ worker_pc = "write"
    /\ IF ok
       THEN /\ files' = files \cup {filepath}
            /\ partial' = partial \ {filepath}
            /\ worker_pc' = "commit"
            /\ UNCHANGED <<file_counter, logvars, item, filepath>>
       ELSE /\ file_counter' = AfterWrite(FALSE, file_counter)
            /\ partial' = (partial \cup {filepath}) \ files
            /\ RateLimitedLog("save_gunshot", now)
            /\ worker_pc' = "loop"
            /\ item' = <<>>
            /\ filepath' = <<>>
            /\ UNCHANGED files
    /\ UNCHANGED <<state_file, dirs, prodvars, written, now, detection_queue,
                   mainvars, histvars>>

\* save_gunshot, after the write: self.file_counter += 1; self.save_state().
\* save_state catches its own failure and logs it.
W_Commit(save_ok) ==
    /\ worker_pc = "commit"
    /\ file_counter' = AfterWrite(TRUE, file_counter)
    /\ IF save_ok
       THEN /\ state_file' = StateRecord(file_counter')
            /\ UNCHANGED logvars
       ELSE /\ state_file' \in SaveFailures(state_file)
            /\ RateLimitedLog("save_state", now)
    /\ worker_pc' = "loop"
    /\ item' = <<>>
    /\ filepath' = <<>>
    /\ UNCHANGED <<files, partial, dirs, prodvars, written, now, detection_queue,
                   mainvars, histvars>>

(***************************************************************************)
(* The main thread: start(), the monitoring loop, stop()                   *)
(***************************************************************************)
\* start() up to the worker thread's start: running is set; test_audio_capture
\* records into the buffer and saves preliminary_test.wav (or fails and is
\* logged); the worker thread is started.
StartBegin(test_ok) ==
    /\ main_pc = "constructed"
    /\ running' = TRUE
    /\ IF test_ok
       THEN /\ buffer' = write(buffer, TestRecording)
            /\ main_io' = main_io \cup {"preliminary_test.wav"}
       ELSE UNCHANGED <<buffer, main_io>>
    /\ worker_pc' = "loop"
    /\ main_pc' = "opening"
    /\ UNCHANGED <<written, now, detection_state, trigger_time, audio_levels,
                   last_debug_time, detection_queue, logvars, usb_path,
                   last_usb_log, media, stream, storagevars, item, filepath,
                   n_callbacks, n_refreshes, n_triggers, n_requests, n_enqueued,
                   queue_ids, consumed, last_observe, requested, rejected>>

\* sd.InputStream(...) opens: callbacks are delivered from now on.
StreamOpen ==
    /\ main_pc = "opening"
    /\ stream' = "open"
    /\ main_pc' = "monitoring"
    /\ UNCHANGED <<running, usb_path, last_usb_log, media, prodvars, written, now,
                   detection_queue, logvars, storagevars, workervars, histvars>>

\* A failed start that leaves the running flag set.
StreamFailStillRunning ==
    /\ main_pc = "opening"
    /\ main_pc' = "idle"
    /\ UNCHANGED <<running, stream, usb_path, last_usb_log, media, prodvars, written,
                   now, detection_queue, logvars, storagevars, workervars, histvars>>

\* A failed start that leaves the stream delivering blocks.
StreamFailStreaming ==
    /\ main_pc = "opening"
    /\ running' = FALSE
    /\ main_pc' = "idle"
    /\ stream' = "open"
    /\ UNCHANGED <<usb_path, last_usb_log, media, prodvars, written, now,
                   detection_queue, logvars, storagevars, workervars, histvars>>

\* sd.InputStream(...) raises: start() logs, clears running and returns; main()
\* goes on to its idle loop.
StreamFail ==
    /\ main_pc = "opening"
    /\ running' = FALSE
    /\ main_pc' = "idle"
    /\ UNCHANGED <<stream, usb_path, last_usb_log, media, prodvars, written, now,
                   detection_queue, logvars, storagevars, workervars, histvars>>

\* The monitoring loop: time.sleep(1); self.usb_path = self.find_usb_drive().
MainRefresh(probe_ok) ==
    /\ main_pc = "monitoring"
    /\ running
    /\ n_refreshes < MaxRefreshes
    /\ n_refreshes' = n_refreshes + 1
    /\ usb_path' = find_usb_drive(media, probe_ok)
    /\ IF ~probe_ok
       THEN /\ RateLimitedLog("find_usb", now)
            /\ UNCHANGED last_usb_log
       ELSE /\ last_usb_log' = IF media = "none" /\ now - last_usb_log >= USB_LOG_INTERVAL
                               THEN now ELSE last_usb_log
            /\ UNCHANGED logvars
    /\ UNCHANGED <<running, media, main_pc, stream, prodvars, written, now,
                   detection_queue, storagevars, workervars, n_callbacks, n_triggers,
                   n_requests, n_enqueued, queue_ids, consumed, main_io, last_observe, requested,
                   rejected>>

\* KeyboardInterrupt inside start(): it is no Exception, so it leaves start() (the
\* with block closes the stream) and main(), whose inner try does not cover
\* start(); the process ends and takes the daemon worker with it.
Interrupt ==
    /\ main_pc \in {"opening", "monitoring"}
    /\ main_pc' = "dead"
    /\ stream' = "closed"
    /\ worker_pc' = "killed"
    /\ partial' = IF worker_pc = "write" THEN (partial \cup {filepath}) \ files ELSE partial
    /\ UNCHANGED <<running, usb_path, last_usb_log, media, prodvars, written, now,
                   detection_queue, logvars, file_counter, state_file, files,
                   dirs, item, filepath, histvars>>

\* KeyboardInterrupt in main()'s idle loop: stop() clears running and joins.
InterruptIdle ==
    /\ main_pc = "idle"
    /\ running' = FALSE
    /\ main_pc' = "joining"
    /\ UNCHANGED <<usb_path, last_usb_log, media, stream, prodvars, written, now,
                   detection_queue, logvars, storagevars, workervars, histvars>>

\* stop() called by another holder of the logger while start() monitors: running
\* is cleared and the caller waits in worker_thread.join(); the stream stays
\* open until start()'s loop reads the flag.
StopWhileMonitoring ==
    /\ main_pc = "monitoring"
    /\ running
    /\ running' = FALSE
    /\ main_pc' = "joining"
    /\ UNCHANGED <<usb_path, last_usb_log, media, stream, prodvars, written, now,
                   detection_queue, logvars, storagevars, workervars, histvars>>

\* start()'s loop after such a stop(): the sleep ends, usb_path is refreshed once
\* more, the flag is read as cleared and the with block closes the stream.
MonitorExit(probe_ok) ==
    /\ stream = "open"
    /\ ~running
    /\ stream' = "closed"
    /\ usb_path' = find_usb_drive(media, probe_ok)
    /\ IF ~probe_ok
       THEN /\ RateLimitedLog("find_usb", now)
            /\ UNCHANGED last_usb_log
       ELSE /\ last_usb_log' = IF media = "none" /\ now - last_usb_log >= USB_LOG_INTERVAL
                               THEN now ELSE last_usb_log
            /\ UNCHANGED logvars
    /\ UNCHANGED <<running, media, main_pc, prodvars, written, now, detection_queue,
                   storagevars, workervars, histvars>>

\* A stop() that saves the state without joining the worker.
StopSaveNoJoin(save_ok) ==
    /\ main_pc = "joining"
    /\ IF save_ok
       THEN /\ state_file' = StateRecord(file_counter)
            /\ UNCHANGED logvars
       ELSE /\ state_file' \in SaveFailures(state_file)
            /\ RateLimitedLog("save_state", now)
    /\ main_io' = main_io \cup {"gunshot_state.json"}
    /\ main_pc' = "stopped"
    /\ UNCHANGED <<running, usb_path, last_usb_log, media, stream, prodvars, written,
                   now, detection_queue, file_counter, files, partial, dirs,
                   workervars, n_callbacks, n_refreshes, n_triggers, n_requests,
                   n_enqueued, queue_ids, consumed, last_observe, requested, rejected>>

\* stop() after worker_thread.join() returned: save_state(), on the main thread.
StopSave(save_ok) ==
    /\ main_pc = "joining"
    /\ worker_pc = "exited"
    /\ IF save_ok
       THEN /\ state_file' = StateRecord(file_counter)
            /\ UNCHANGED logvars
       ELSE /\ state_file' \in SaveFailures(state_file)
            /\ RateLimitedLog("save_state", now)
    /\ main_io' = main_io \cup {"gunshot_state.json"}
    /\ main_pc' = "stopped"
    /\ UNCHANGED <<running, usb_path, last_usb_log, media, stream, prodvars, written,
                   now, detection_queue, file_counter, files, partial, dirs,
                   workervars, n_callbacks, n_refreshes, n_triggers, n_requests,
                   n_enqueued, queue_ids, consumed, last_observe, requested, rejected>>

(***************************************************************************)
(* The environment: the clock and the storage device                       *)
(***************************************************************************)
\* With no stream open the clock advances on its own.
Tick ==
    /\ main_pc \in {"idle", "joining"}
    /\ now < Epoch + MaxTicks
    /\ now' = now + 1
    /\ UNCHANGED <<prodvars, written, detection_queue, logvars, storagevars,
                   workervars, mainvars, histvars>>

\* The drive is unplugged, replugged, or another medium is mounted.
MediaChange(m) ==
    /\ main_pc = "monitoring"
    /\ m # media
    /\ media' = m
    /\ UNCHANGED <<running, usb_path, last_usb_log, main_pc, stream, prodvars, written,
                   now, detection_queue, logvars, storagevars, workervars, histvars>>

\* The process has ended and the program is run again: main() constructs a new
\* GunshotLogger, whose __init__ needs the drive mounted and reloads the counter.
\* Storage and the clock carry over; n_callbacks, n_refreshes and main_io go on
\* counting over all runs.
Restart ==
    /\ main_pc \in {"dead", "stopped"}
    /\ media = "usb"
    /\ buffer' = CircularBuffer(BUFFER_DURATION, SAMPLE_RATE, CHANNELS)
    /\ written' = <<>>
    /\ file_counter' = load_state(state_file)
    /\ detection_queue' = <<>>
    /\ running' = FALSE
    /\ usb_path' = "usb"
    /\ last_usb_log' = 0
    /\ detection_state' = "IDLE"
    /\ trigger_time' = None
    /\ error_counts' = <<>>
    /\ log_calls' = <<>>
    /\ last_debug_time' = 0
    /\ audio_levels' = <<>>
    /\ main_pc' = "constructed"
    /\ stream' = "closed"
    /\ worker_pc' = "not_started"
    /\ item' = <<>>
    /\ filepath' = <<>>
    /\ n_triggers' = 0
    /\ n_requests' = 0
    /\ n_enqueued' = 0
    /\ queue_ids' = <<>>
    /\ consumed' = <<>>
    /\ last_observe' = NoObserve
    /\ requested' = <<>>
    /\ rejected' = {}
    /\ UNCHANGED <<now, media, state_file, files, partial, dirs, n_callbacks,
                   n_refreshes, main_io>>

(***************************************************************************)
(* Spec: the producer under every delivered block, status and gap, with a  *)
(* worker whose storage works.                                             *)
(***************************************************************************)
Next ==
    \/ AudioCallback(Blocks, Statuses, 1..MaxGap, MaxCallbacks)
    \/ W_Loop
    \/ W_Get
    \/ W_Empty
    \/ W_CheckUsb
    \/ W_Validate(TRUE)
    \/ W_Write(TRUE)
    \/ W_Commit(TRUE)
    \/ \E test_ok \in BOOLEAN : StartBegin(test_ok)
    \/ StreamOpen
    \/ StreamFail
    \/ MainRefresh(TRUE)
    \/ Interrupt
    \/ InterruptIdle
    \/ StopSave(TRUE)
    \/ Tick

Spec == Init /\ [][Next]_vars

(***************************************************************************)
(* SpecQueue: producer and worker around the queue, over runs long enough  *)
(* to overfill it, under the blocks that decide detection.                 *)
(***************************************************************************)
NextQueue ==
    \/ AudioCallback(QueueBlocks, {"none"}, 1..MaxGap, QueueCallbacks)
    \/ W_Loop
    \/ W_Get
    \/ W_Empty
    \/ W_CheckUsb
    \/ W_Validate(TRUE)
    \/ W_Write(TRUE)
    \/ W_Commit(TRUE)
    \/ StartBegin(TRUE)
    \/ StreamOpen
    \/ StreamFail
    \/ Interrupt
    \/ InterruptIdle
    \/ StopSave(TRUE)

SpecQueue == InitWith(Absent, BUFFER_DURATION) /\ [][NextQueue]_vars

(***************************************************************************)
(* SpecPersist: the pipeline with storage that comes and goes and I/O that *)
(* may fail, under the blocks that decide detection and validation.        *)
(***************************************************************************)
NextPersist ==
    \/ AudioCallback(PersistBlocks, {"none"}, {CAPTURE_DELAY}, PersistCallbacks)
    \/ W_Loop
    \/ W_Get
    \/ W_Empty
    \/ W_CheckUsb
    \/ \E mkdir_ok \in BOOLEAN : W_Validate(mkdir_ok)
    \/ \E ok \in BOOLEAN : W_Write(ok)
    \/ \E save_ok \in BOOLEAN : W_Commit(save_ok)
    \/ StartBegin(TRUE)
    \/ StreamOpen
    \/ StreamFail
    \/ \E probe_ok \in BOOLEAN : MainRefresh(probe_ok)
    \/ \E m \in {"usb", "none"} : MediaChange(m)
    \/ Interrupt
    \/ InterruptIdle
    \/ \E save_ok \in BOOLEAN : StopSave(save_ok)
    \/ Tick

SpecPersist == InitWith(Absent, BUFFER_DURATION) /\ [][NextPersist]_vars

(***************************************************************************)
(* SpecRestart: runs of the program one after the other over the same      *)
(* storage: loud blocks only, a state file write that may fail, interrupts *)
(* and restarts.                                                           *)
(***************************************************************************)
NextRestart ==
    \/ AudioCallback({Loud}, {"none"}, {CAPTURE_DELAY}, RestartCallbacks)
    \/ W_Loop
    \/ W_Get
    \/ W_Empty
    \/ W_CheckUsb
    \/ W_Validate(TRUE)
    \/ W_Write(TRUE)
    \/ \E save_ok \in BOOLEAN : W_Commit(save_ok)
    \/ StartBegin(TRUE)
    \/ StreamOpen
    \/ StreamFail
    \/ Interrupt
    \/ InterruptIdle
    \/ \E save_ok \in BOOLEAN : StopSave(save_ok)
    \/ Tick
    \/ Restart

InitRestart == \E f \in AllStateFiles : InitWith(f, BUFFER_DURATION)

SpecRestart == InitRestart /\ [][NextRestart]_vars

(***************************************************************************)
(* SpecShutdown: start-up, stream failure, interrupts and stop(), with a   *)
(* worker thread that the scheduler keeps running (the dequeue times out   *)
(* after one second, every storage call returns).                          *)
(***************************************************************************)
Worker ==
    \/ W_Loop
    \/ W_Get
    \/ W_Empty
    \/ W_CheckUsb
    \/ W_Validate(TRUE)
    \/ W_Write(TRUE)
    \/ W_Commit(TRUE)

NextShutdown ==
    \/ AudioCallback({Loud}, {"none"}, {CAPTURE_DELAY}, ShutdownCallbacks)
    \/ Worker
    \/ \E test_ok \in BOOLEAN : StartBegin(test_ok)
    \/ StreamOpen
    \/ StreamFail
    \/ MainRefresh(TRUE)
    \/ Interrupt
    \/ InterruptIdle
    \/ \E save_ok \in BOOLEAN : StopSave(save_ok)
    \/ Tick

SpecShutdown ==
    InitWith(Absent, BUFFER_DURATION) /\ [][NextShutdown]_vars /\ WF_vars(Worker)

(***************************************************************************)
(* SpecDrain: the worker under a stop() that arrives while the stream is   *)
(* open, which main() never issues: the flag is cleared with snapshots     *)
(* queued and the producer still delivering.                               *)
(***************************************************************************)
NextDrain ==
    \/ AudioCallback({Loud}, {"none"}, {CAPTURE_DELAY}, DrainCallbacks)
    \/ Worker
    \/ \E test_ok \in BOOLEAN : StartBegin(test_ok)
    \/ StreamOpen
    \/ StopWhileMonitoring
    \/ MonitorExit(TRUE)
    \/ \E save_ok \in BOOLEAN : StopSave(save_ok)

SpecDrain ==
    InitWith(Absent, BUFFER_DURATION) /\ [][NextDrain]_vars /\ WF_vars(Worker)

(***************************************************************************)
(* SpecBuffer: the buffer alone, under arbitrary writes.                   *)
(***************************************************************************)
Samples == 1..MaxAmp

RECURSIVE SeqsOfLen(_, _)
SeqsOfLen(S, n) ==
    IF n = 0 THEN {<<>>}
    ELSE {Append(s, x) : s \in SeqsOfLen(S, n - 1), x \in S}

SeqsUpTo(S, n) == UNION {SeqsOfLen(S, k) : k \in 0..n}

InitBuffer == \E duration \in 1..MaxDuration : InitWith(Absent, duration)

BufWrite(d) ==
    /\ Len(written) + Len(d) <= MaxWritten
    /\ buffer' = write(buffer, d)
    /\ written' = written \o d
    /\ UNCHANGED <<now, detection_state, trigger_time, audio_levels, last_debug_time,
                   detection_queue, logvars, storagevars, workervars, mainvars,
                   histvars>>

NextBuffer == \E d \in SeqsUpTo(Samples, MaxWriteLen) : BufWrite(d)

SpecBuffer == InitBuffer /\ [][NextBuffer]_vars

LastN(s, n) == SubSeq(s, Len(s) - n + 1, Len(s))

\* C1: after any sequence of writes get_buffer() is exactly the most recent
\* min(S, total_written) samples in the order written (all of them while the
\* total is <= S, the last S once it is > S), and never longer than S.
C1_SnapshotIsRecent ==
    /\ get_buffer(buffer) = LastN(written, Min(buffer.size, Len(written)))
    /\ Len(get_buffer(buffer)) <= buffer.size
    /\ buffer.total_samples_written = Len(written)

\* The wrapped case: more than S samples written and the cursor mid-buffer.
C1_Witness ==
    /\ buffer.size > CHANNELS
    /\ Len(written) > buffer.size
    /\ buffer.index # 0
    /\ buffer.is_full

(***************************************************************************)
(* The detection state machine (Spec)                                      *)
(***************************************************************************)
\* C2: a reading observed while TRIGGERED, above the threshold or not, leaves
\* trigger_time as it was and is no new trigger; every trigger is followed by
\* one capture request before the next trigger, so the requests never exceed
\* the triggers.
C2_NoRetrigger ==
    /\ last_observe.detection_state = "TRIGGERED"
          => trigger_time = last_observe.trigger_time
    /\ n_requests <= n_triggers
    /\ n_triggers <= n_requests + 1
    /\ (detection_state = "TRIGGERED") <=> (n_triggers = n_requests + 1)

\* A second above-threshold reading inside the window of a trigger.
C2_Witness ==
    /\ last_observe.detection_state = "TRIGGERED"
    /\ last_observe.db_level > DETECTION_THRESHOLD
    /\ ~last_observe.capture
    /\ detection_state = "TRIGGERED"
    /\ n_triggers = 1

C4_StrictThreshold ==
    last_observe.detection_state = "IDLE"
        => IF last_observe.db_level > DETECTION_THRESHOLD
           THEN detection_state = "TRIGGERED" /\ trigger_time = last_observe.time
           ELSE detection_state = "IDLE" /\ trigger_time = last_observe.trigger_time

\* A level equal to the threshold was observed in IDLE.
C4_Witness ==
    /\ last_observe.detection_state = "IDLE"
    /\ last_observe.db_level = DETECTION_THRESHOLD
    /\ detection_state = "IDLE"

(***************************************************************************)
(* The detection queue (SpecQueue)                                         *)
(***************************************************************************)
Ids(n) == [i \in 1..n |-> i]

\* C5: the queue never holds more than MAX_QUEUE_SIZE snapshots; while no
\* consumer has drained it, it holds exactly the first min(requests, Qmax)
\* snapshots in order; a request made on a full queue leaves the queue as it
\* was, is reported (queue.Full, logged under queue_full) and the callback
\* completes.
C5_QueueBounded ==
    /\ [](/\ Len(detection_queue) <= MAX_QUEUE_SIZE
          /\ Len(queue_ids) = Len(detection_queue)
          /\ consumed = <<>>
                => /\ queue_ids = Ids(Min(n_requests, MAX_QUEUE_SIZE))
                   /\ n_enqueued = Min(n_requests, MAX_QUEUE_SIZE)
          /\ last_observe.full => "queue_full" \in DOMAIN error_counts)
    /\ [][(n_requests' = n_requests + 1 /\ Len(detection_queue) = MAX_QUEUE_SIZE)
            => /\ detection_queue' = detection_queue
               /\ n_enqueued' = n_enqueued
               /\ last_observe'.full
               /\ n_callbacks' = n_callbacks + 1]_vars

\* Qmax + 1 requests with nothing consumed: the queue is full, the last one dropped.
C5_Witness ==
    /\ consumed = <<>>
    /\ n_requests = MAX_QUEUE_SIZE + 1
    /\ Len(detection_queue) = MAX_QUEUE_SIZE
    /\ last_observe.full

\* C6: the worker takes snapshots in the order the producer enqueued them: the
\* ranks consumed so far, followed by the ranks still queued, are 1, 2, ... in
\* order, in every interleaving.
C6_Fifo ==
    consumed \o queue_ids = Ids(n_enqueued)

\* Two snapshots consumed while a third waits.
C6_Witness ==
    /\ Len(consumed) = 2
    /\ Len(queue_ids) = 1
    /\ worker_pc = "save"

C8_PersistedEqualsMemory ==
    [][(worker_pc = "commit" /\ worker_pc' = "loop")
          => /\ file_counter' = file_counter + 1
             /\ state_file' = [kind |-> "ok", file_counter |-> file_counter']]_vars

\* C8, amended: the step that follows a successful file write advances
\* file_counter by exactly one and attempts to persist it; the persisted record
\* equals the new counter when that write succeeds, and otherwise the failure is
\* logged under save_state and the record keeps its old value or is unreadable.
C8_AdvanceAndPersist ==
    [][(worker_pc = "commit" /\ worker_pc' = "loop")
          => /\ filepath \in files
             /\ file_counter' = file_counter + 1
             /\ \/ /\ state_file' = [kind |-> "ok", file_counter |-> file_counter']
                   /\ error_counts' = error_counts
                \/ /\ state_file' = state_file \/ state_file'.kind = "corrupt"
                   /\ error_counts' # error_counts
                   /\ "save_state" \in DOMAIN error_counts']_vars

\* The first capture file is written and the record holds the advanced counter.
C8_Witness ==
    /\ files # {}
    /\ file_counter = 2
    /\ state_file = [kind |-> "ok", file_counter |-> 2]
    /\ worker_pc = "loop"
    /\ main_pc = "monitoring"

\* C9: when save_gunshot ends without a file (no storage at the first check, no
\* storage or no directory before the write, or the write raising), the failure
\* goes to the rate-limited log, file_counter, the persisted record and the
\* written files stay as they were, the snapshot is gone and not queued again,
\* the producer's state is untouched, and with the stream open a callback can
\* still run.
C9_FailureLeavesCounters ==
    /\ [][(/\ worker_pc \in {"save", "validate", "write"}
           /\ worker_pc' = "loop"
           /\ worker_pc = "validate" => validate_audio_data(item[2]) = "valid")
            => /\ error_counts' # error_counts
               /\ IF worker_pc = "save"
                  THEN "no_usb" \in DOMAIN error_counts'
                  ELSE "save_gunshot" \in DOMAIN error_counts'
               /\ file_counter' = file_counter
               /\ state_file' = state_file
               /\ files' = files
               /\ item' = <<>>
               /\ detection_queue' = detection_queue
               /\ UNCHANGED <<prodvars, stream, running>>]_vars
    /\ []((stream = "open" /\ n_callbacks < PersistCallbacks)
            => ENABLED AudioCallback(PersistBlocks, {"none"}, {CAPTURE_DELAY},
                                     PersistCallbacks))

\* A write has failed and a snapshot was skipped for want of storage; nothing
\* was counted and the stream is still open.
C9_Witness ==
    /\ partial # {}
    /\ "save_gunshot" \in DOMAIN error_counts
    /\ "no_usb" \in DOMAIN error_counts
    /\ files = {}
    /\ file_counter = 1
    /\ worker_pc = "loop"
    /\ stream = "open"

\* C10: a snapshot that is empty, all zero, below the RMS floor or below the
\* amplitude floor leaves validation straight back to the worker loop, logged
\* under invalid_audio: no directory is created, no file is written and
\* file_counter is unchanged; such a snapshot is never at the write.
C10_RejectedBeforeStorage ==
    /\ [][LET a == item[2]
              Rejectable ==
                  \/ Len(a) = 0
                  \/ \A i \in 1..Len(a) : a[i] = 0
                  \/ SumSq(a) < RMS_FLOOR * RMS_FLOOR * Len(a)
                  \/ MaxAbs(a) < AMP_FLOOR
          IN  (worker_pc = "validate" /\ Rejectable /\ worker_pc' # worker_pc)
                => /\ worker_pc' \in {"loop", "killed"}
                   /\ UNCHANGED <<dirs, files, partial, file_counter, state_file>>
                   /\ worker_pc' = "loop"
                        => /\ "invalid_audio" \in DOMAIN error_counts'
                           /\ error_counts' # error_counts
                           /\ item' = <<>>]_vars
    /\ [](worker_pc \in {"write", "commit"}
            => /\ Len(item[2]) > 0
               /\ \E i \in 1..Len(item[2]) : item[2][i] # 0
               /\ SumSq(item[2]) >= RMS_FLOOR * RMS_FLOOR * Len(item[2])
               /\ MaxAbs(item[2]) >= AMP_FLOOR)

\* Snapshots have been rejected at the RMS floor and at the amplitude floor, and
\* storage is untouched.
C10_Witness ==
    /\ {"rms", "amplitude"} \subseteq rejected
    /\ dirs = {}
    /\ files = {}
    /\ file_counter = 1

(***************************************************************************)
(* Rate-limited logging in the pipeline (SpecPersist)                      *)
(***************************************************************************)
\* C11: for every key the first call of rate_limited_log emits, as given; every
\* further call no later than ERROR_COOLDOWN after the key's last emission emits
\* nothing, and the key's count is the number of calls suppressed since that
\* emission; so two entries of one key are never within one cooldown window.
C11_FirstEmitsThenSuppressed ==
    LET Earlier(i) == {j \in 1..(i - 1) : log_calls[j].key = log_calls[i].key}
        EmittedIn(S) == {j \in S : log_calls[j].emitted}
        Latest(S) == CHOOSE j \in S : \A k \in S : k <= j
        Of(key) == {j \in 1..Len(log_calls) : log_calls[j].key = key}
    IN  /\ \A i \in 1..Len(log_calls) :
              IF Earlier(i) = {}
              THEN log_calls[i].emitted /\ log_calls[i].appended = 0
              ELSE /\ EmittedIn(Earlier(i)) # {}
                   /\ log_calls[i].time - log_calls[Latest(EmittedIn(Earlier(i)))].time
                          <= ERROR_COOLDOWN
                        => ~log_calls[i].emitted
        /\ \A i, j \in 1..Len(log_calls) :
              (i < j /\ log_calls[i].key = log_calls[j].key
                     /\ log_calls[i].emitted /\ log_calls[j].emitted)
                  => log_calls[j].time - log_calls[i].time > ERROR_COOLDOWN
        /\ DOMAIN error_counts = {log_calls[i].key : i \in 1..Len(log_calls)}
        /\ \A key \in DOMAIN error_counts :
              error_counts[key].count =
                  Cardinality({j \in Of(key) : j > Latest(EmittedIn(Of(key)))})

\* Two all-zero snapshots rejected within one cooldown window: one entry, one
\* occurrence counted.
C11_Witness ==
    /\ rejected = {"zeros"}
    /\ \E i, j \in 1..Len(log_calls) :
          /\ i < j
          /\ log_calls[i].key = "invalid_audio" /\ log_calls[i].emitted
          /\ log_calls[j].key = "invalid_audio" /\ ~log_calls[j].emitted
    /\ error_counts["invalid_audio"].count = 1

(***************************************************************************)
(* The rate limiter on its own (SpecLimiter): rate_limited_log called for  *)
(* a few keys at arbitrary clock readings.                                 *)
(***************************************************************************)
LimiterKeys == {"invalid_audio", "queue_full"}

\* Some caller runs self.rate_limited_log(level, message, error_key) now.
LimiterCall(error_key) ==
    /\ Len(log_calls) < MaxLogCalls
    /\ RateLimitedLog(error_key, now)
    /\ UNCHANGED <<prodvars, written, now, detection_queue, storagevars, workervars,
                   mainvars, histvars>>

\* time.time() advances between two calls.
LimiterClock(d) ==
    /\ now + d <= Epoch + MaxLimiterTime
    /\ now' = now + d
    /\ UNCHANGED <<prodvars, written, detection_queue, logvars, storagevars,
                   workervars, mainvars, histvars>>

NextLimiter ==
    \/ \E error_key \in LimiterKeys : LimiterCall(error_key)
    \/ \E d \in {1, ERROR_COOLDOWN} : LimiterClock(d)

SpecLimiter == InitWith(Absent, BUFFER_DURATION) /\ [][NextLimiter]_vars

\* C12 as stated: a call that emits after n >= 1 suppressed calls of its key
\* carries n in its message, and leaves the key's count 0 and its timestamp the
\* time of the call.
C12_SuppressedCountAppended ==
    LET Of(key) == {j \in 1..Len(log_calls) : log_calls[j].key = key}
        EmittedBefore(i) == {j \in Of(log_calls[i].key) : j < i /\ log_calls[j].emitted}
        Latest(S) == CHOOSE j \in S : \A k \in S : k <= j
        Suppressed(i) == Cardinality({j \in Of(log_calls[i].key) :
                                         Latest(EmittedBefore(i)) < j /\ j < i})
    IN  /\ \A i \in 1..Len(log_calls) :
              (log_calls[i].emitted /\ EmittedBefore(i) # {} /\ Suppressed(i) >= 1)
                  => log_calls[i].appended = Suppressed(i)
        /\ \A key \in DOMAIN error_counts :
              log_calls[Latest(Of(key))].emitted
                  => error_counts[key] =
                         [count |-> 0, last_time |-> log_calls[Latest(Of(key))].time]

(***************************************************************************)
(* The counter across restarts (SpecRestart)                               *)
(***************************************************************************)
\* C13 as stated: every successful write of a capture file uses a counter larger
\* than the counter of every capture file written successfully before it, in
\* this run or in an earlier run over the same storage.
C13_CounterNeverReused ==
    [][(worker_pc = "write" /\ worker_pc' = "commit")
          => \A f \in files : f[2] < filepath[2]]_vars

\* C14 as stated: the counter a new GunshotLogger starts with is the integer the
\* state record holds, and 1 for every other record: missing, unparsable, or
\* not holding an integer file_counter; so a counter saved by one run is the
\* counter the next run loads.
C14_LoadIntegerOrOne ==
    main_pc = "constructed"
        => file_counter = IF state_file.kind = "ok" THEN state_file.file_counter ELSE 1

C17_FinalCounterPersisted ==
    main_pc \in {"dead", "stopped"}
        => /\ state_file = [kind |-> "ok", file_counter |-> file_counter]
           /\ "gunshot_state.json" \in main_io
           /\ worker_pc = "exited"

(***************************************************************************)
(* Error isolation (SpecPersist)                                           *)
(***************************************************************************)
\* C18: every step of save_gunshot, failing or not, leaves the worker inside
\* save_gunshot or back at the head of its loop, never ended, and leaves the
\* producer's buffer and detection state, the stream, the flag and the queue as
\* they were; a step that fails is logged; back at the loop head a running
\* worker goes on to the dequeue, and takes the next snapshot when one is queued.
C18_ErrorsStayInWorker ==
    /\ [][(worker_pc \in {"save", "validate", "write", "commit"}
             /\ worker_pc' # worker_pc /\ main_pc' # "dead")
            => /\ worker_pc' \in {"validate", "write", "commit", "loop"}
               /\ UNCHANGED <<prodvars, stream, running, detection_queue>>
               /\ (\/ worker_pc \in {"save", "validate", "write"} /\ worker_pc' = "loop"
                   \/ /\ worker_pc = "commit"
                      /\ state_file' # [kind |-> "ok", file_counter |-> file_counter'])
                    => /\ Len(log_calls') = Len(log_calls) + 1
                       /\ item' = <<>>]_vars
    /\ [][(worker_pc = "loop" /\ running /\ worker_pc' # worker_pc /\ main_pc' # "dead")
            => worker_pc' = "get"]_vars
    /\ []((worker_pc = "loop" /\ running) => ENABLED W_Loop)
    /\ []((worker_pc = "get" /\ detection_queue # <<>>) => ENABLED W_Get)

\* Saving the first snapshot failed and was logged; the second one has been
\* taken and its file written, while the producer still detects.
C18_Witness ==
    /\ Len(consumed) = 2
    /\ \E i \in 1..Len(log_calls) : log_calls[i].key = "save_gunshot"
    /\ worker_pc = "commit"
    /\ stream = "open"

(***************************************************************************)
(* Start-up failure (SpecShutdown)                                         *)
(***************************************************************************)
\* C19: once opening the stream has failed, running is cleared and stays so, the
\* stream is closed and no callback can run; no callback has run, so there is no
\* trigger, no capture request, nothing queued and no capture file; and the
\* worker that start() had started exits.
C19_OpenFailureAborts ==
    /\ [](main_pc \in {"idle", "joining", "stopped"}
            => /\ ~running
               /\ stream = "closed"
               /\ ~ENABLED AudioCallback({Loud}, {"none"}, {CAPTURE_DELAY},
                                         ShutdownCallbacks)
               /\ n_callbacks = 0
               /\ n_triggers = 0
               /\ n_requests = 0
               /\ detection_queue = <<>>
               /\ files = {}
               /\ worker_pc \in {"loop", "get", "exited"})
    /\ (main_pc = "idle") ~> (worker_pc = "exited")

\* The stream could not be opened, main() idles, and the worker has exited.
C19_Witness ==
    /\ main_pc = "idle"
    /\ worker_pc = "exited"
    /\ ~running

(***************************************************************************)
(* Every block is processed (Spec)                                         *)
(***************************************************************************)
\* C20 as stated: every audio callback, whatever the detection state and
\* whatever status comes with the block, writes the block to the buffer and
\* runs the detection state machine on it.
C20_EveryBlockProcessed ==
    [][(n_callbacks' = n_callbacks + 1)
          => /\ buffer'.total_samples_written
                    = buffer.total_samples_written + BUFFER_SIZE * CHANNELS
             /\ last_observe'.time = now'
             /\ last_observe'.detection_state = detection_state]_vars

(***************************************************************************)
(* Who touches storage (SpecShutdown)                                      *)
(***************************************************************************)
\* C21 as stated: capture files, the target directory and the counter record
\* change only in steps of the worker thread inside save_gunshot.
C21_StorageOnlyOnWorker ==
    [][(state_file' # state_file \/ files' # files \/ dirs' # dirs)
          => /\ worker_pc \in {"validate", "write", "commit"}
             /\ worker_pc' # worker_pc]_vars

\* C21, amended: while the worker thread is alive, capture files, the target
\* directory and the counter record change only in its steps; the callback never
\* touches storage; the main thread writes the test recording before it starts
\* the worker and the counter record in stop() after the worker has exited, and
\* nothing else.
C21_StorageOffProducer ==
    /\ [][(state_file' # state_file \/ files' # files \/ dirs' # dirs)
            => \/ /\ worker_pc \in {"validate", "write", "commit"}
                  /\ worker_pc' # worker_pc
               \/ /\ main_pc = "joining" /\ main_pc' = "stopped"
                  /\ worker_pc = "exited"
                  /\ files' = files /\ dirs' = dirs]_vars
    /\ [][(n_callbacks' # n_callbacks) => UNCHANGED <<storagevars, main_io>>]_vars
    /\ [][(main_io' # main_io)
            => \/ /\ worker_pc = "not_started"
                  /\ main_io' = main_io \cup {"preliminary_test.wav"}
               \/ /\ worker_pc = "exited"
                  /\ main_io' = main_io \cup {"gunshot_state.json"}]_vars

\* stop() has written the counter record of a run whose test recording was saved.
C21_Witness ==
    /\ main_pc = "stopped"
    /\ main_io = {"preliminary_test.wav", "gunshot_state.json"}
    /\ state_file = [kind |-> "ok", file_counter |-> file_counter]

(***************************************************************************)
(* What a snapshot carries (Spec)                                          *)
(***************************************************************************)
\* C22 as stated: the level in a snapshot that the queue accepts is the level of
\* the reading that caused the IDLE -> TRIGGERED transition it belongs to.
C22_SnapshotHasTriggerLevel ==
    [][(n_enqueued' = n_enqueued + 1)
          => detection_queue'[Len(detection_queue')][1] = last_observe'.trigger_level]_vars

(***************************************************************************)
(* Snapshots are copies (SpecQueue)                                        *)
(***************************************************************************)
\* C23: every snapshot in the queue, and the one the worker holds, has the
\* contents the buffer had when its capture was requested, whatever the producer
\* has written since and wherever the worker is.
C23_SnapshotIsCopy ==
    /\ Len(requested) = n_enqueued
    /\ \A i \in 1..Len(detection_queue) :
          detection_queue[i][2] = requested[queue_ids[i]]
    /\ item # <<>> => item[2] = requested[consumed[Len(consumed)]]

\* The worker is writing one snapshot and another is queued, and the buffer has
\* since been overwritten with other samples.
C23_Witness ==
    /\ worker_pc = "write"
    /\ Len(detection_queue) = 1
    /\ item[2] # get_buffer(buffer)
    /\ detection_queue[1][2] # get_buffer(buffer)

(***************************************************************************)
(* The counter within one run (SpecPersist)                                *)
(***************************************************************************)
\* C24: whatever the main loop does to usb_path while the worker saves, the
\* counter in memory is the loaded value plus the number of capture files written
\* (once the increment that follows a write has run, while the process lives), and every write that
\* succeeds creates a file no earlier write of the run created, named by the
\* counter.
C24_CounterCountsWrites ==
    /\ [](main_pc # "dead"
            => file_counter + (IF worker_pc = "commit" THEN 1 ELSE 0)
                 = load_state(Absent) + Cardinality(files))
    /\ [][(files' # files)
            => /\ worker_pc = "write"
               /\ filepath \notin files
               /\ filepath[2] = file_counter
               /\ files' = files \cup {filepath}]_vars

\* Two capture files are written, a save has failed in between, and the main
\* loop has since found the drive gone.
C24_Witness ==
    /\ Cardinality(files) = 2
    /\ file_counter = 3
    /\ n_refreshes > 0
    /\ usb_path = "none"
    /\ worker_pc = "loop"

(***************************************************************************)
(* The queue at shutdown (SpecDrain)                                       *)
(***************************************************************************)
\* C25: with the flag cleared the worker never starts another dequeue: only a
\* dequeue already waiting can still return a snapshot, one at most, which is
\* saved before the exit; once the worker has exited, nothing is dequeued,
\* validated or written any more, and the snapshots in the queue, those the
\* producer adds afterwards included, stay there.
C25_NoDrainOnShutdown ==
    /\ [][(~running /\ worker_pc' = "get") => worker_pc = "get"]_vars
    /\ [][(~running /\ consumed' # consumed)
            => /\ worker_pc = "get" /\ worker_pc' = "save"
               /\ Len(consumed') = Len(consumed) + 1]_vars
    /\ [][(worker_pc = "exited")
            => /\ worker_pc' = "exited"
               /\ UNCHANGED <<consumed, rejected, files, dirs, partial, file_counter, item>>
               /\ Len(detection_queue') >= Len(detection_queue)
               /\ \A i \in 1..Len(detection_queue) :
                     detection_queue'[i] = detection_queue[i]]_vars

\* stop() has returned: the worker took one snapshot and exited, and two
\* snapshots are left in the queue.
C25_Witness ==
    /\ main_pc = "stopped"
    /\ worker_pc = "exited"
    /\ Len(consumed) = 1
    /\ Len(detection_queue) = 2

(***************************************************************************)
(* Producer state invariants (Spec)                                        *)
(***************************************************************************)
\* C26: while detection_state is TRIGGERED, trigger_time is set: it was set to
\* the time of the callback that triggered and no later callback changes it
\* while the state stays TRIGGERED; and audio_levels never holds more than
\* LEVEL_HISTORY readings.
C26_TriggerTimeSetLevelsBounded ==
    /\ [](detection_state = "TRIGGERED" => trigger_time # None /\ trigger_time <= now)
    /\ [][(detection_state # "TRIGGERED" /\ detection_state' = "TRIGGERED")
            => /\ n_callbacks' = n_callbacks + 1
               /\ trigger_time' = now']_vars
    /\ [][(detection_state = "TRIGGERED" /\ detection_state' = "TRIGGERED")
            => trigger_time' = trigger_time]_vars
    /\ [](Len(audio_levels) <= LEVEL_HISTORY)

\* A callback has run since the trigger and the state is still TRIGGERED, with
\* the level history full.
C26_Witness ==
    /\ detection_state = "TRIGGERED"
    /\ trigger_time < now
    /\ last_observe.detection_state = "TRIGGERED"
    /\ Len(audio_levels) = LEVEL_HISTORY
    /\ n_callbacks >= 2

====
